---- MODULE Spec2Model ----
(***************************************************************************)
(* Orthrus Poker Table (Texas Hold'em): the hand engine of server.js.      *)
(*                                                                         *)
(* `table` mirrors the JS object STATE.  Indices into STATE.players are the *)
(* 0-based indices of the source; At(ps, i) reads element i.  Cards are    *)
(* abstracted to counts (deck, community, hole cards); the hand ranking of *)
(* pokersolver is an input `rank` (player id -> strength) of every event   *)
(* that can reach a showdown.  `audit` is a history variable: it records   *)
(* what the last event did and which players acted on the current street.  *)
(***************************************************************************)
EXTENDS Integers, Sequences, FiniteSets, TLC

VARIABLES table, audit

vars == <<table, audit>>

(* ------------------------------- Consts -------------------------------- *)
TABLE_MAX == 6
STARTING_STACK == 2000
SMALL_BLIND == 25
BIG_BLIND == 50
DECK_SIZE == 52

(* ------------------------------- Bounds -------------------------------- *)
MaxPlayers == 3
\* hands dealt per table lifetime
MaxHands == 2
\* events beyond the routine play of a hand (a bet or raise, a timer firing on
\* a stalled street, a host override, a dropped link, a further settlement of
\* the same hand) per table lifetime
MaxIrregular == 1
MaxRank == 2

Amounts == {0, 2000}
Ranks == 1..MaxRank
Betting == {"preflop", "flop", "turn", "river"}
PlayerActions == {"fold", "check", "call", "bet", "raise"}

(* ------------------------------ Utilities ------------------------------ *)
Max2(a, b) == IF a >= b THEN a ELSE b
Min2(a, b) == IF a <= b THEN a ELSE b
MinOf(S) == CHOOSE x \in S : \A y \in S : x <= y
MaxOf(S) == CHOOSE x \in S : \A y \in S : x >= y

RECURSIVE SumSeq(_)
SumSeq(s) == IF s = <<>> THEN 0 ELSE Head(s) + SumSeq(Tail(s))

At(ps, i) == ps[i + 1]
\* a sequence given by its elements, as a tuple
Tup(s) == s \o <<>>
Idx(ps) == 0..(Len(ps) - 1)

Live(p) == p.inHand /\ ~p.folded
CanActP(p) == p.inHand /\ ~p.folded /\ ~p.allIn

SumStacks(ps) == SumSeq(Tup([i \in DOMAIN ps |-> ps[i].stack]))
SumBets(ps) == SumSeq(Tup([i \in DOMAIN ps |-> ps[i].bet]))
SumCommitted(ps) == SumSeq(Tup([i \in DOMAIN ps |-> ps[i].committed]))

\* Math.max(...STATE.players.map(p => p.bet || 0))
maxBet(ps) == MaxOf({ps[i].bet : i \in DOMAIN ps})

firstOpenSeat(ps) ==
  LET taken == {ps[i].seat : i \in DOMAIN ps}
      open == {s \in 0..(TABLE_MAX - 1) : s \notin taken}
  IN IF open = {} THEN -1 ELSE MinOf(open)

\* uuidv4(): an identifier no seated player carries
freshId(ps) == MinOf({k \in 0..Len(ps) : \A i \in DOMAIN ps : ps[i].id # k})

\* faulty variant: the next seat, live or not
nextSeat(ps, fromIdx) ==
  IF Len(ps) = 0 THEN -1 ELSE (fromIdx + 1) % Len(ps)

nextActivePlayer(ps, fromIdx) ==
  LET n == Len(ps)
      ks == {k \in 1..n : Live(At(ps, (fromIdx + k) % n))}
  IN IF ks = {} THEN -1 ELSE (fromIdx + MinOf(ks)) % n

resetBets(ps) ==
  Tup([i \in DOMAIN ps |-> IF Live(ps[i]) THEN [ps[i] EXCEPT !.bet = 0] ELSE ps[i]])

\* faulty variant: the street bets are cleared without reaching the pot
collectBetsDropped(T) ==
  [T EXCEPT !.players = Tup([i \in DOMAIN T.players |-> [T.players[i] EXCEPT !.bet = 0]])]

\* faulty variant: only the bets of the live seats are swept
collectBetsOfLive(T) ==
  [T EXCEPT !.pot = T.pot + SumSeq(Tup([i \in DOMAIN T.players |->
                               IF Live(T.players[i]) THEN T.players[i].bet ELSE 0])),
            !.players = Tup([i \in DOMAIN T.players |-> [T.players[i] EXCEPT !.bet = 0]])]

\* faulty variant: the street bets are added to the pot and left on the seats
collectBetsKept(T) ==
  [T EXCEPT !.pot = T.pot + SumBets(T.players)]

collectBetsToPot(T) ==
  [T EXCEPT !.pot = T.pot + SumBets(T.players),
            !.players = Tup([i \in DOMAIN T.players |-> [T.players[i] EXCEPT !.bet = 0]])]

(* --------------------- Side pots: preview & showdown -------------------- *)
RECURSIVE SortAsc(_)
SortAsc(S) == IF S = {} THEN <<>> ELSE <<MinOf(S)>> \o SortAsc(S \ {MinOf(S)})

\* faulty variant: only the live seats' committed amounts make a level
LevelsOfLive(ps) == SortAsc({ps[i].committed : i \in {j \in DOMAIN ps : Live(ps[j]) /\ ps[j].committed > 0}})

\* levels: the distinct committed amounts of the contributors, ascending
Levels(ps) == SortAsc({ps[i].committed : i \in {j \in DOMAIN ps : ps[j].committed > 0}})

RECURSIVE PreviewWalk(_, _, _, _)
PreviewWalk(ps, lvls, prev, pots) ==
  IF lvls = <<>> THEN pots
  ELSE LET lvl == Head(lvls)
           band == Max2(0, lvl - prev)
           contributorsCount == Cardinality({i \in DOMAIN ps : ps[i].committed >= lvl})
           eligibleCount == Cardinality({i \in DOMAIN ps : Live(ps[i]) /\ ps[i].committed >= lvl})
       IN IF band = 0 THEN PreviewWalk(ps, Tail(lvls), lvl, pots)
          ELSE PreviewWalk(ps, Tail(lvls), lvl,
                 IF eligibleCount >= 2
                 THEN Append(pots, [amount |-> band * contributorsCount,
                                    eligibleCount |-> eligibleCount])
                 ELSE pots)

\* faulty variant: the levels are taken from the live seats only
buildSidePotsPreviewOfLive(ps) == PreviewWalk(ps, LevelsOfLive(ps), 0, <<>>)

buildSidePotsPreview(ps) == PreviewWalk(ps, Levels(ps), 0, <<>>)

\* faulty variant: refundsById.set(id, band), dropping what the seat already has
AddRefundOverwrite(m, id, band) == (id :> band) @@ m

\* refundsById.set(id, (refundsById.get(id) || 0) + band)
AddRefund(m, id, band) ==
  IF id \in DOMAIN m THEN [m EXCEPT ![id] = @ + band] ELSE (id :> band) @@ m

\* faulty variant: only the first contributor of a dead band is refunded
AddRefundToFirst(m, ids, band) ==
  IF ids = <<>> THEN m ELSE AddRefund(m, Head(ids), band)

\* for (const c of contribs) refundsById.set(c.id, ... + band)
RECURSIVE AddRefunds(_, _, _)
AddRefunds(m, ids, band) ==
  IF ids = <<>> THEN m ELSE AddRefunds(AddRefund(m, Head(ids), band), Tail(ids), band)

\* const band = Math.max(0, lvl - prev)
bandWidth(lvl, prev) == Max2(0, lvl - prev)

\* faulty variant: the pot counts the eligible seats only, not every contributor
sidePotOfEligible(band, cCount, eligible) ==
  [amount |-> band * Len(eligible), eligibleIds |-> {eligible[k].id : k \in DOMAIN eligible}]

\* pots.push({ amount: band * cCount, eligibleIds: new Set(eligible.map(p => p.id)) })
sidePot(band, cCount, eligible) ==
  [amount |-> band * cCount, eligibleIds |-> {eligible[k].id : k \in DOMAIN eligible}]

RECURSIVE RefundWalk(_, _, _, _)
RefundWalk(ps, lvls, prev, acc) ==
  IF lvls = <<>> THEN acc
  ELSE LET lvl == Head(lvls)
           band == bandWidth(lvl, prev)
           contribs == SelectSeq(ps, LAMBDA p : p.committed >= lvl)
           cCount == Len(contribs)
           eligible == SelectSeq(ps, LAMBDA p : Live(p) /\ p.committed >= lvl)
       IN IF band = 0 THEN RefundWalk(ps, Tail(lvls), lvl, acc)
          ELSE IF cCount = 1
          THEN RefundWalk(ps, Tail(lvls), lvl,
                 [acc EXCEPT !.refundsById = AddRefund(@, contribs[1].id, band),
                             !.totalRefund = @ + band])
          ELSE IF Len(eligible) >= 1
          THEN RefundWalk(ps, Tail(lvls), lvl,
                 [acc EXCEPT !.pots = Append(@, sidePot(band, cCount, eligible))])
          ELSE RefundWalk(ps, Tail(lvls), lvl,
                 [acc EXCEPT !.refundsById =
                                AddRefunds(@, Tup([k \in DOMAIN contribs |-> contribs[k].id]), band),
                             !.totalRefund = @ + band * cCount])

NoSidePots == [pots |-> <<>>, refundsById |-> <<>>, totalRefund |-> 0]

buildSidePotsWithRefunds(ps) == RefundWalk(ps, Levels(ps), 0, NoSidePots)

updateSidePotsPreview(T) == [T EXCEPT !.sidePotsPreview = buildSidePotsPreview(T.players)]

(* ------------------------------ Showdown -------------------------------- *)
\* evaluateHands + Hand.winners: the eligible contenders of maximal strength
\* faulty variant: the best contender wins the pot, eligible to it or not
WinnersOfAlive(ps, aliveIds, eligibleIds, rank) ==
  {id \in aliveIds : \A o \in aliveIds : rank[id] >= rank[o]}

Winners(ps, aliveIds, eligibleIds, rank) ==
  LET elig == {id \in aliveIds : id \in eligibleIds}
  IN {id \in elig : \A o \in elig : rank[id] >= rank[o]}

\* faulty variant: the odd chips go to the winners in table order, not seat order
awardPotInTableOrder(ps, pot, aliveIds, rank) ==
  LET elig == {id \in aliveIds : id \in pot.eligibleIds}
      winnerIds == {id \in elig : \A o \in elig : rank[id] >= rank[o]}
      k == Cardinality(winnerIds)
      share == pot.amount \div k
      remainder == pot.amount - share * k
      pos(i) == Cardinality({j \in DOMAIN ps : j < i /\ ps[j].id \in winnerIds})
  IN IF elig = {} THEN ps
     ELSE Tup([i \in DOMAIN ps |->
                 IF ps[i].id \in winnerIds
                 THEN [ps[i] EXCEPT !.stack = @ + share + (IF pos(i) < remainder THEN 1 ELSE 0)]
                 ELSE ps[i]])

awardPot(ps, pot, aliveIds, rank) ==
  LET elig == {id \in aliveIds : id \in pot.eligibleIds}
      winnerIds == Winners(ps, aliveIds, pot.eligibleIds, rank)
      k == Cardinality(winnerIds)
      share == pot.amount \div k
      remainder == pot.amount - share * k
      winnerSeats == {ps[i].seat : i \in {j \in DOMAIN ps : ps[j].id \in winnerIds}}
      \* position of a winner in `ordered`, the winners sorted by seat
      pos(p) == Cardinality({s \in winnerSeats : s < p.seat})
      extra(p) == Cardinality({i \in 0..(remainder - 1) : i % k = pos(p)})
  IN IF elig = {} THEN ps
     ELSE Tup([i \in DOMAIN ps |->
                 IF ps[i].id \in winnerIds
                 THEN [ps[i] EXCEPT !.stack = @ + share + extra(ps[i])]
                 ELSE ps[i]])

RECURSIVE awardPots(_, _, _, _)
awardPots(ps, pots, aliveIds, rank) ==
  IF pots = <<>> THEN ps
  ELSE awardPots(awardPot(ps, Head(pots), aliveIds, rank), Tail(pots), aliveIds, rank)

\* refundsById.forEach((amt, pid) => { pl.stack += amt })
applyRefunds(ps, refundsById) ==
  Tup([i \in DOMAIN ps |->
         IF ps[i].id \in DOMAIN refundsById
         THEN [ps[i] EXCEPT !.stack = @ + refundsById[ps[i].id]]
         ELSE ps[i]])

\* faulty variant: the clamped index is written back to the table
broadcastStateWriteBack(T) ==
  [T EXCEPT !.currentPlayerIdx = IF @ >= 0 /\ @ < Len(T.players) THEN @ ELSE -1,
            !.audit.shown = @ \cup {<<T.stage, T.community>>}]

\* broadcastState reads STATE only; the history keeps the stage and the board
\* of every snapshot sent while an event is processed
broadcastState(T) ==
  [T EXCEPT !.audit.shown = @ \cup {<<T.stage, T.community>>}]

(* --------------------------- Inter-hand timer --------------------------- *)
\* if (STATE.nextHandTimer) { clearTimeout(STATE.nextHandTimer); STATE.nextHandTimer = null; }
\* the history counts the next-hand timeouts that are set and neither fired nor cleared
clearNextHandTimer(T) ==
  [T EXCEPT !.nextHandTimer = "null",
            !.audit.liveTimers = IF T.nextHandTimer = "pending" THEN @ - 1 ELSE @]

\* faulty variant: the timeout is set over a pending one without clearing it
armNextHandTimerNoClear(T) ==
  [T EXCEPT !.nextHandTimer = "pending", !.audit.liveTimers = @ + 1]

\* if (STATE.nextHandTimer) clearTimeout(STATE.nextHandTimer);
\* STATE.nextHandTimer = setTimeout(startHand, 6000);
armNextHandTimer(T) ==
  [T EXCEPT !.nextHandTimer = "pending",
            !.audit.liveTimers = IF T.nextHandTimer = "pending" THEN @ ELSE @ + 1]

\* finishHand up to and including the payout (before the busted seats are removed)
settleHand(T, rank) ==
  LET settle(T1) ==
        LET ps == T1.players
            alive == {i \in DOMAIN ps : Live(ps[i])}
            aliveIds == {ps[i].id : i \in alive}
            contested(sp) ==
              [T1 EXCEPT !.players = awardPots(IF sp.totalRefund > 0
                                                 THEN applyRefunds(ps, sp.refundsById)
                                                 ELSE ps,
                                               sp.pots, aliveIds, rank),
                         !.pot = 0,
                         !.audit.sidePots = sp]
        IN IF Cardinality(alive) = 1
           THEN [T1 EXCEPT !.players = Tup([i \in DOMAIN ps |->
                              IF i \in alive THEN [ps[i] EXCEPT !.stack = @ + T1.pot] ELSE ps[i]]),
                           !.pot = 0]
           ELSE IF Cardinality(alive) > 1
           THEN contested(buildSidePotsWithRefunds(ps))
           ELSE T1
  IN settle(collectBetsToPot([T EXCEPT !.watchdogTimer = "null"]))

finishHand(T, rank) ==
  LET before == SumStacks(T.players) + SumBets(T.players) + T.pot
      nAlive == Cardinality({i \in DOMAIN T.players : Live(T.players[i])})
      scheduled(T3) ==
        broadcastState(IF Len(T3.players) >= 2 THEN armNextHandTimer(T3) ELSE T3)
      removeBusted(T2, remaining) ==
        scheduled(
          [T2 EXCEPT !.players = remaining,
                     !.sidePotsPreview = <<>>,
                     !.audit.settled = @ + 1,
                     !.audit.settles = @ + 1,
                     !.audit.spent = IF T.audit.settles >= 1 THEN @ + 1 ELSE @,
                     !.audit.settledAlive = nAlive,
                     !.audit.delta = @ + (SumStacks(T2.players) - before)])
      settled(T2) == removeBusted(T2, SelectSeq(T2.players, LAMBDA p : p.stack > 0))
  IN settled(settleHand(T, rank))

(* ------------------------------ Watchdog -------------------------------- *)
\* faulty variant: the timer is cleared but not re-armed
resetWatchdogNoRearm(T) ==
  IF T.watchdogTimer = "pending" THEN [T EXCEPT !.watchdogTimer = "stale"] ELSE T

\* clearTimeout leaves the handle in STATE.watchdogTimer: "stale"
\* faulty variant: the timer is armed on the first street only
resetWatchdogPreflopOnly(T) ==
  IF T.stage = "preflop" THEN [T EXCEPT !.watchdogTimer = "pending"]
  ELSE IF T.watchdogTimer = "pending" THEN [T EXCEPT !.watchdogTimer = "stale"]
  ELSE T

resetWatchdog(T) ==
  IF T.stage \in Betting THEN [T EXCEPT !.watchdogTimer = "pending"]
  ELSE IF T.watchdogTimer = "pending" THEN [T EXCEPT !.watchdogTimer = "stale"]
  ELSE T

(* ------------------------------ Hand flow ------------------------------- *)
postBlind(ps, idx, amt) ==
  LET p == At(ps, idx)
      blind == Min2(amt, p.stack)
  IN [ps EXCEPT ![idx + 1] = [p EXCEPT !.stack = p.stack - blind,
                                       !.bet = blind,
                                       !.committed = p.committed + blind]]

\* faulty variant: the burn card lands on the board as well
dealCommunityWithBurn(T, n) ==
  [T EXCEPT !.deck = Max2(0, @ - (n + 1)), !.community = @ + n + 1]

dealCommunity(T, n) ==
  [T EXCEPT !.deck = Max2(0, @ - (n + 1)), !.community = @ + n]

startHand(T) ==
  LET T0 == [clearNextHandTimer(T) EXCEPT !.watchdogTimer = "null"]
      n == Len(T.players)
      ps0 == Tup([i \in DOMAIN T.players |->
                [T.players[i] EXCEPT !.inHand = (T.players[i].stack > 0),
                                     !.folded = FALSE, !.allIn = FALSE,
                                     !.bet = 0, !.committed = 0, !.cards = 0]])
      dealer == (T.dealerBtn + 1 + n) % n
      sbIdx == (dealer + 1) % n
      bbIdx == (dealer + 2) % n
      dealt == Tup([i \in DOMAIN ps0 |-> [ps0[i] EXCEPT !.cards = 2]])
      ps1 == postBlind(postBlind(dealt, sbIdx, SMALL_BLIND), bbIdx, BIG_BLIND)
      first == (dealer + 3) % n
  IN IF n < 2 THEN [T0 EXCEPT !.players = ps0]
     ELSE resetWatchdog(broadcastState(updateSidePotsPreview(
            [T0 EXCEPT !.players = ps1,
                       !.hasStarted = TRUE,
                       !.stage = "preflop",
                       !.handId = @ + 1,
                       !.community = 0,
                       !.pot = 0,
                       !.minRaiseTo = BIG_BLIND,
                       !.deck = DECK_SIZE - 2 * n,
                       !.dealerBtn = dealer,
                       !.currentPlayerIdx = first,
                       !.roundFirstIdx = first,
                       !.hasBetOrRaise = FALSE,
                       !.lastRaiserIdx = -1,
                       !.audit.acted = {},
                       !.audit.settles = 0,
                       !.audit.dealt = n,
                       \* the players of this hand in table order, the dealer first
                       !.audit.ring = Tup([k \in 1..n |-> At(ps1, (dealer + k - 1) % n).id])])))

\* faulty variant: the flop is skipped
nextStageSkipFlop(stage) ==
  CASE stage = "preflop" -> "turn"
    [] stage = "flop" -> "turn"
    [] stage = "turn" -> "river"
    [] OTHER -> "showdown"

\* faulty variant: the river falls back to the turn
nextStageRewind(stage) ==
  CASE stage = "preflop" -> "flop"
    [] stage = "flop" -> "turn"
    [] stage = "turn" -> "river"
    [] stage = "river" -> "turn"
    [] OTHER -> "showdown"

nextStage(stage) ==
  CASE stage = "preflop" -> "flop"
    [] stage = "flop" -> "turn"
    [] stage = "turn" -> "river"
    [] OTHER -> "showdown"

advanceStage(T, rank) ==
  LET alive == {i \in DOMAIN T.players : Live(T.players[i])}
      stage1 == nextStage(T.stage)
      openStreet(T2, first) ==
        resetWatchdog(broadcastState(updateSidePotsPreview(
          [T2 EXCEPT !.minRaiseTo = BIG_BLIND,
                     !.roundFirstIdx = first,
                     !.currentPlayerIdx = first,
                     !.hasBetOrRaise = FALSE,
                     !.lastRaiserIdx = -1,
                     !.audit.acted = {}])))
      deal(T2) == openStreet(T2, nextActivePlayer(T2.players, T2.dealerBtn))
      collected(T1) ==
        IF stage1 = "showdown" THEN T1
        ELSE deal([dealCommunity([T1 EXCEPT !.stage = stage1],
                                 IF stage1 = "flop" THEN 3 ELSE 1)
                     EXCEPT !.players = resetBets(@)])
      ends == Cardinality(alive) <= 1 \/ stage1 = "showdown"
  IN IF ends
     THEN finishHand([(IF Cardinality(alive) <= 1 THEN T ELSE collectBetsToPot(T))
                        EXCEPT !.stage = "showdown"], rank)
     ELSE collected(collectBetsToPot(T))

(* --------------------- Turn rotation & stage advance -------------------- *)
\* the while loop of turnRotateOrAdvance: skip seats that cannot act
RECURSIVE SkipLoop(_, _, _, _)
SkipLoop(ps, cur, nextIdx, hops) ==
  IF hops < Len(ps) /\ (nextIdx = -1 \/ ~CanActP(At(ps, nextIdx)))
  THEN SkipLoop(ps, cur, nextActivePlayer(ps, IF nextIdx = -1 THEN cur ELSE nextIdx), hops + 1)
  ELSE <<nextIdx, hops>>

\* faulty variant: canAct.some(...) in place of canAct.every(...)
someMatched(ps) == \E i \in DOMAIN ps : CanActP(ps[i]) /\ ps[i].bet = maxBet(ps)

\* canAct.every(p => (p.bet || 0) === maxBet)
allMatched(ps) == \A i \in DOMAIN ps : CanActP(ps[i]) => ps[i].bet = maxBet(ps)

\* faulty variant: a lone actor closes the street whatever it still owes
loneAlwaysDone(ps, loneIdx, mb) == TRUE

\* (STATE.players[loneIdx].bet || 0) === maxBet
loneMatched(ps, loneIdx, mb) == At(ps, loneIdx).bet = mb

turnRotateOrAdvance(T, rank) ==
  LET ps == T.players
      alive == {i \in DOMAIN ps : Live(ps[i])}
      mb == maxBet(ps)
      canAct == {i \in DOMAIN ps : CanActP(ps[i])}
      loneIdx == (CHOOSE i \in canAct : TRUE) - 1
      \* history: the table as the round-completion rule sees it
      TE == [T EXCEPT !.audit.evalN = Cardinality(canAct),
                      !.audit.evalBelow = Cardinality({i \in canAct : ps[i].bet < mb}),
                      !.audit.evalHasBet = T.hasBetOrRaise,
                      !.audit.evalMaxBet = mb]
      rotate(nextIdx, hops) ==
        IF canAct = {} THEN <<"advance", T.currentPlayerIdx>>
        ELSE IF Cardinality(canAct) = 1
        THEN IF loneMatched(ps, loneIdx, mb) THEN <<"advance", T.currentPlayerIdx>>
             ELSE <<"turn", loneIdx>>
        ELSE IF T.hasBetOrRaise /\ allMatched(ps) THEN <<"advance", T.currentPlayerIdx>>
        ELSE IF nextIdx = -1 \/ hops >= Len(ps) THEN <<"advance", T.currentPlayerIdx>>
        ELSE IF ~T.hasBetOrRaise /\ nextIdx = T.roundFirstIdx THEN <<"advance", nextIdx>>
        ELSE <<"turn", nextIdx>>
      decided(d) ==
        IF d[1] = "advance" THEN advanceStage([TE EXCEPT !.currentPlayerIdx = d[2]], rank)
        ELSE broadcastState([TE EXCEPT !.currentPlayerIdx = d[2]])
      skipped(hop) == decided(rotate(hop[1], hop[2]))
  IN IF Cardinality(alive) <= 1 THEN finishHand([T EXCEPT !.stage = "showdown"], rank)
     ELSE skipped(SkipLoop(ps, T.currentPlayerIdx,
                           nextActivePlayer(ps, T.currentPlayerIdx), 0))

(* ------------------------------- Actions -------------------------------- *)
\* faulty variant: a check is let through whatever the seat still owes
AppliesAnyCheck(T, idx, action) ==
  /\ idx = T.currentPlayerIdx
  /\ Live(At(T.players, idx))

\* whether handleAction gets past its guards for the player at index idx
Applies(T, idx, action) ==
  /\ idx = T.currentPlayerIdx
  /\ Live(At(T.players, idx))
  /\ action = "check" => maxBet(T.players) - At(T.players, idx).bet = 0

\* faulty variant: the payment is not clamped
payUnclamped(x, stack) == x

\* Math.min(Math.max(0, x), p.stack)
clampPay(x, stack) == Min2(Max2(0, x), stack)

\* faulty variant: an emptied stack does not mark the seat
marksAllInNever(stack) == FALSE

\* if (p.stack === 0) p.allIn = true;
marksAllIn(stack) == stack = 0

\* faulty variant: the requested amount is taken as it comes
raiseTargetAsked(amount, minRaiseTo) == amount

\* Math.max(Math.max(STATE.minRaiseTo, BIG_BLIND), amount)
raiseTarget(amount, minRaiseTo) == Max2(Max2(minRaiseTo, BIG_BLIND), amount)

handleAction(T, idx, action, amount, rank) ==
  LET p == At(T.players, idx)
      toCall == maxBet(T.players) - p.bet
      TA == [T EXCEPT !.audit.ev = IF action = "bet" THEN "raise" ELSE action,
                      !.audit.acted = @ \cup {p.id}]
      callAmt == clampPay(toCall, p.stack)
      raiseTo == raiseTarget(amount, T.minRaiseTo)
      toPay == toCall + raiseTo
      pay == clampPay(toPay, p.stack)
      paid(x) == [p EXCEPT !.stack = p.stack - x,
                           !.bet = p.bet + x,
                           !.committed = p.committed + x,
                           !.allIn = IF marksAllIn(p.stack - x) THEN TRUE ELSE @]
      moved ==
        CASE action = "fold" -> [TA EXCEPT !.players[idx + 1].folded = TRUE]
          [] action = "check" -> TA
          [] action = "call" -> [TA EXCEPT !.players[idx + 1] = paid(callAmt)]
          [] OTHER -> [TA EXCEPT !.players[idx + 1] = paid(pay),
                                 !.minRaiseTo = raiseTo,
                                 !.hasBetOrRaise = TRUE,
                                 !.lastRaiserIdx = idx,
                                 !.audit.spent = @ + 1]
      passTurn(T1) ==
        broadcastState([T1 EXCEPT !.currentPlayerIdx = nextActivePlayer(T1.players, idx)])
      previewed(T1) ==
        IF action \in {"bet", "raise"} THEN passTurn(T1) ELSE turnRotateOrAdvance(T1, rank)
  IN IF ~Applies(T, idx, action) THEN T
     ELSE resetWatchdog(previewed(updateSidePotsPreview(moved)))

(* ------------------------------ Hard reset ------------------------------ *)
NoAudit ==
  [ev |-> "init", settled |-> 0, settledAlive |-> 0, delta |-> 0,
   evalN |-> -1, evalBelow |-> 0, evalHasBet |-> FALSE, evalMaxBet |-> 0,
   sidePots |-> NoSidePots, acted |-> {}, settles |-> 0, dealt |-> 0,
   shown |-> {}, payload |-> <<>>, from |-> "lobby", liveTimers |-> 0, joined |-> 0,
   ring |-> <<>>, spent |-> 0]

hardReset(T) ==
  broadcastState(
  [clearNextHandTimer(T) EXCEPT !.watchdogTimer = "null",
            !.handId = 0, !.stage = "lobby", !.community = 0, !.deck = 0,
            !.players = <<>>, !.dealerBtn = -1, !.currentPlayerIdx = -1,
            !.pot = 0, !.minRaiseTo = BIG_BLIND, !.tableOpen = TRUE,
            !.hasStarted = FALSE, !.roundFirstIdx = -1, !.hasBetOrRaise = FALSE,
            !.lastRaiserIdx = -1, !.sidePotsPreview = <<>>,
            !.audit.acted = {}, !.audit.settles = 0, !.audit.spent = 0,
            !.audit.dealt = 0, !.audit.joined = 0, !.audit.ring = <<>>])

removePlayerById(T, playerId) ==
  IF \E i \in DOMAIN T.players : T.players[i].id = playerId
  THEN broadcastState([T EXCEPT !.players = SelectSeq(@, LAMBDA p : p.id # playerId)])
  ELSE T

newPlayer(ps) ==
  [id |-> freshId(ps), seat |-> firstOpenSeat(ps), conn |-> TRUE,
   stack |-> STARTING_STACK, inHand |-> TRUE, folded |-> FALSE, bet |-> 0,
   cards |-> 0, allIn |-> FALSE, committed |-> 0]

(* ------------------------- State and its events ------------------------- *)
InitTable ==
  [handId |-> 0, stage |-> "lobby", community |-> 0, deck |-> 0, players |-> <<>>,
   dealerBtn |-> -1, currentPlayerIdx |-> -1, pot |-> 0, minRaiseTo |-> BIG_BLIND,
   tableOpen |-> TRUE, hasStarted |-> FALSE, roundFirstIdx |-> -1,
   hasBetOrRaise |-> FALSE, lastRaiserIdx |-> -1, nextHandTimer |-> "null",
   watchdogTimer |-> "null", sidePotsPreview |-> <<>>]

WithAudit(t, a) ==
  [handId |-> t.handId, stage |-> t.stage, community |-> t.community, deck |-> t.deck,
   players |-> t.players, dealerBtn |-> t.dealerBtn,
   currentPlayerIdx |-> t.currentPlayerIdx, pot |-> t.pot, minRaiseTo |-> t.minRaiseTo,
   tableOpen |-> t.tableOpen, hasStarted |-> t.hasStarted,
   roundFirstIdx |-> t.roundFirstIdx, hasBetOrRaise |-> t.hasBetOrRaise,
   lastRaiserIdx |-> t.lastRaiserIdx, nextHandTimer |-> t.nextHandTimer,
   watchdogTimer |-> t.watchdogTimer, sidePotsPreview |-> t.sidePotsPreview,
   audit |-> a]

TableOf(T) ==
  [handId |-> T.handId, stage |-> T.stage, community |-> T.community, deck |-> T.deck,
   players |-> T.players, dealerBtn |-> T.dealerBtn,
   currentPlayerIdx |-> T.currentPlayerIdx, pot |-> T.pot, minRaiseTo |-> T.minRaiseTo,
   tableOpen |-> T.tableOpen, hasStarted |-> T.hasStarted,
   roundFirstIdx |-> T.roundFirstIdx, hasBetOrRaise |-> T.hasBetOrRaise,
   lastRaiserIdx |-> T.lastRaiserIdx, nextHandTimer |-> T.nextHandTimer,
   watchdogTimer |-> T.watchdogTimer, sidePotsPreview |-> T.sidePotsPreview]

\* the table together with the history record, as threaded through a handler
Begin(ev) ==
  WithAudit(table, [NoAudit EXCEPT !.ev = ev, !.acted = audit.acted,
                                   !.settles = audit.settles, !.spent = audit.spent,
                                   !.dealt = audit.dealt, !.from = table.stage,
                                   !.liveTimers = audit.liveTimers, !.joined = audit.joined,
                                   !.ring = audit.ring])

\* an event outside the play of a hand: a timer firing on a stalled street,
\* a host override, a dropped link
Fault(ev) == [Begin(ev) EXCEPT !.audit.spent = @ + 1]

\* the bounds of the model
Commit(T) ==
  /\ T.handId <= MaxHands
  /\ T.audit.spent <= MaxIrregular
  /\ table' = TableOf(T)
  /\ audit' = T.audit

PlayerIds == {table.players[i].id : i \in DOMAIN table.players}
AllRanks == [PlayerIds -> Ranks]
FlatRank == [id \in PlayerIds |-> 1]

\* the hand ranking matters only to an event that reaches a contested showdown
RanksFor(T) == IF T.audit.settled > 0 /\ T.audit.settledAlive > 1 THEN AllRanks ELSE {FlatRank}

Init ==
  /\ table = InitTable
  /\ audit = NoAudit

\* socket.on('player:join')
Join ==
  /\ table.tableOpen /\ Len(table.players) < TABLE_MAX /\ ~table.hasStarted
  /\ Len(table.players) < MaxPlayers
  /\ firstOpenSeat(table.players) # -1
  /\ Commit(broadcastState(updateSidePotsPreview(
       [Begin("join") EXCEPT !.players = Append(@, newPlayer(table.players)),
                             !.audit.joined = @ + 1])))

\* socket.on('host:start')
HostStart ==
  /\ Len(table.players) >= 2 /\ ~table.hasStarted
  /\ Commit(startHand([Begin("start") EXCEPT !.tableOpen = FALSE]))

\* socket.on('player:action') from the socket of the connected player at index idx
PlayerAction ==
  \E idx \in Idx(table.players), action \in PlayerActions, amount \in Amounts :
    /\ At(table.players, idx).conn
    /\ Applies(table, idx, action)
    /\ action \in {"bet", "raise"} => audit.spent < MaxIrregular
    /\ action \notin {"bet", "raise"} => amount = 0
    /\ \E R \in {handleAction(Begin("ignored"), idx, action, amount, FlatRank)} :
         \E rank \in RanksFor(R) :
           Commit(IF rank = FlatRank THEN R
                  ELSE handleAction(Begin("ignored"), idx, action, amount, rank))

\* the player:action messages that handleAction drops in the current state
Ignored ==
  {m \in Idx(table.players) \X PlayerActions :
     At(table.players, m[1]).conn /\ ~Applies(table, m[1], m[2])}

\* a player:action that handleAction drops
IgnoredAction ==
  /\ Ignored # {}
  /\ LET m == CHOOSE m \in Ignored : TRUE
     IN table' = TableOf(handleAction(Begin("ignored"), m[1], m[2], 0, FlatRank))
  /\ audit' = audit

\* the watchdog timer fires
WatchdogFire ==
  /\ table.watchdogTimer = "pending"
  /\ audit.spent < MaxIrregular
  /\ \E R \in {advanceStage([Fault("watchdog") EXCEPT !.watchdogTimer = "stale"], FlatRank)} :
       \E rank \in RanksFor(R) :
         Commit(IF rank = FlatRank THEN R
                ELSE advanceStage([Fault("watchdog") EXCEPT !.watchdogTimer = "stale"], rank))

\* the inter-hand timer fires: startHand
NextHandTimerFire ==
  /\ table.nextHandTimer = "pending"
  /\ Commit(startHand([Begin("nextHandTimer") EXCEPT !.nextHandTimer = "stale",
                                                     !.audit.liveTimers = @ - 1]))

\* socket.on('host:nextHandNow')
nextHandNow(T, rank) ==
  LET forced(T1) == IF Len(T1.players) >= 2 THEN startHand(T1) ELSE T1
  IN IF T.stage = "lobby"
     THEN forced([clearNextHandTimer(T) EXCEPT
                    !.tableOpen = IF Len(T.players) >= 2 THEN FALSE ELSE @])
     ELSE forced(clearNextHandTimer(
                   finishHand([clearNextHandTimer(T) EXCEPT !.stage = "showdown"], rank)))

NextHandNow ==
  /\ audit.spent < MaxIrregular
  /\ \E R \in {nextHandNow(Fault("nextHandNow"), FlatRank)} :
       \E rank \in RanksFor(R) :
         Commit(IF rank = FlatRank THEN R ELSE nextHandNow(Fault("nextHandNow"), rank))

\* socket.on('host:endGame')
EndGame == Commit(hardReset(Begin("endGame")))

\* socket.on('host:removePlayer')
RemovePlayer ==
  \E i \in DOMAIN table.players :
    /\ audit.spent < MaxIrregular
    /\ Commit(removePlayerById(Fault("remove"), table.players[i].id))

\* socket.on('disconnect') of a seated player's socket
Disconnect ==
  \E i \in DOMAIN table.players :
    /\ table.players[i].conn
    /\ audit.spent < MaxIrregular
    /\ Commit(broadcastState(updateSidePotsPreview(
         [Fault("disconnect") EXCEPT !.players[i].inHand = FALSE,
                                     !.players[i].folded = TRUE,
                                     !.players[i].conn = FALSE])))

Next ==
  \/ Join
  \/ HostStart
  \/ PlayerAction
  \/ IgnoredAction
  \/ WatchdogFire
  \/ NextHandTimerFire
  \/ NextHandNow
  \/ EndGame
  \/ RemovePlayer
  \/ Disconnect

Spec == Init /\ [][Next]_vars

(* ------------- The side-pot calculator as a pure function --------------- *)
MaxPotSeats == 3
CommittedAmounts == {0, 100, 300, 500}
\* <<inHand, folded>>: live, folded, link dropped
SeatFlags == {<<TRUE, FALSE>>, <<TRUE, TRUE>>, <<FALSE, TRUE>>}

potSeat(k, c, fl) ==
  [id |-> k - 1, seat |-> k - 1, conn |-> fl[1], stack |-> STARTING_STACK - c,
   inHand |-> fl[1], folded |-> fl[2], bet |-> 0, cards |-> 2, allIn |-> FALSE,
   committed |-> c]

PotInputs == UNION {[1..n -> CommittedAmounts \X SeatFlags] : n \in 2..MaxPotSeats}

PotInit ==
  \E f \in PotInputs :
    /\ table = [InitTable EXCEPT
                  !.stage = "showdown", !.handId = 1, !.hasStarted = TRUE,
                  !.tableOpen = FALSE, !.dealerBtn = 0, !.community = 5,
                  !.players = Tup([k \in DOMAIN f |-> potSeat(k, f[k][1], f[k][2])])]
    /\ audit = NoAudit

ComputeSidePots ==
  /\ audit.ev = "init"
  /\ audit' = [audit EXCEPT !.ev = "sidePots",
                            !.sidePots = buildSidePotsWithRefunds(table.players)]
  /\ UNCHANGED table

PotNext == ComputeSidePots

SpecPots == PotInit /\ [][PotNext]_vars

(* ------------------ Bands, stated from the committed amounts ------------- *)
LevelSet(ps) == {ps[i].committed : i \in DOMAIN ps} \ {0}
Reach(ps, L) == {i \in DOMAIN ps : ps[i].committed >= L}
LiveReach(ps, L) == {i \in Reach(ps, L) : ps[i].inHand /\ ~ps[i].folded}
Below(ps, L) == MaxOf({0} \cup {l \in LevelSet(ps) : l < L})
Width(ps, L) == L - Below(ps, L)
SoleLevels(ps) == {L \in LevelSet(ps) : Cardinality(Reach(ps, L)) = 1}
DeadLevels(ps) ==
  {L \in LevelSet(ps) : Cardinality(Reach(ps, L)) >= 2 /\ LiveReach(ps, L) = {}}
PotLevels(ps) ==
  {L \in LevelSet(ps) : Cardinality(Reach(ps, L)) >= 2 /\ LiveReach(ps, L) # {}}

RECURSIVE SumWidths(_, _)
SumWidths(ps, Ls) ==
  IF Ls = {} THEN 0
  ELSE LET L == MinOf(Ls) IN Width(ps, L) + SumWidths(ps, Ls \ {L})

RECURSIVE SumBands(_, _)
SumBands(ps, Ls) ==
  IF Ls = {} THEN 0
  ELSE LET L == MinOf(Ls)
       IN Width(ps, L) * Cardinality(Reach(ps, L)) + SumBands(ps, Ls \ {L})

RECURSIVE SumFun(_, _)
SumFun(f, D) ==
  IF D = {} THEN 0 ELSE LET d == MinOf(D) IN f[d] + SumFun(f, D \ {d})

SumPots(pots) == SumSeq(Tup([k \in DOMAIN pots |-> pots[k].amount]))
RefundOf(sp, id) == IF id \in DOMAIN sp.refundsById THEN sp.refundsById[id] ELSE 0
Computed == audit.ev = "sidePots"

\* C3: the pots and the refunds of a settlement add up to the committed chips,
\* and totalRefund is the sum of the per-seat refund map
C3_PotsAndRefundsSumToCommitted ==
  Computed =>
    LET sp == audit.sidePots
    IN /\ SumPots(sp.pots) + sp.totalRefund = SumCommitted(table.players)
       /\ sp.totalRefund = SumFun(sp.refundsById, DOMAIN sp.refundsById)

C3_Witness ==
  /\ Computed
  /\ Len(audit.sidePots.pots) >= 2
  /\ audit.sidePots.totalRefund > 0

TopSeats(ps) ==
  {i \in DOMAIN ps : \A j \in DOMAIN ps \ {i} : ps[i].committed > ps[j].committed}
SecondHighest(ps, i) == MaxOf({ps[j].committed : j \in DOMAIN ps \ {i}})

C5_DeadBandRefundedEqually ==
  Computed =>
    LET ps == table.players
        sp == audit.sidePots
    IN /\ \A i \in DOMAIN ps :
            RefundOf(sp, ps[i].id)
              = SumWidths(ps, {L \in SoleLevels(ps) \cup DeadLevels(ps) :
                                 ps[i].committed >= L})
       /\ sp.totalRefund
            = SumWidths(ps, SoleLevels(ps)) + SumBands(ps, DeadLevels(ps))
       /\ Len(sp.pots) = Cardinality(PotLevels(ps))

C5_Witness ==
  /\ Computed
  /\ DeadLevels(table.players) # {}
  /\ PotLevels(table.players) # {}
  /\ \E L \in DeadLevels(table.players) : Cardinality(Reach(table.players, L)) = 2

\* the k-th smallest element of a set of numbers
RECURSIVE Kth(_, _)
Kth(S, k) == IF k = 1 THEN MinOf(S) ELSE Kth(S \ {MinOf(S)}, k - 1)

ExpectedPots(ps) ==
  Tup([k \in 1..Cardinality(PotLevels(ps)) |->
         LET L == Kth(PotLevels(ps), k)
         IN [amount |-> Width(ps, L) * Cardinality(Reach(ps, L)),
             eligibleIds |-> {ps[i].id : i \in LiveReach(ps, L)}]])

ThreeLive_100_300_300 ==
  /\ Len(table.players) = 3
  /\ \A i \in 1..3 : table.players[i].inHand /\ ~table.players[i].folded
  /\ table.players[1].committed = 100
  /\ table.players[2].committed = 300
  /\ table.players[3].committed = 300

\* C6: every band reached by two or more seats, one of them live, is one pot,
\* in ascending order of level, of band x contributors (folded included),
\* eligible to exactly the live seats that reach the level
C6_PotsByLevel ==
  Computed =>
    /\ audit.sidePots.pots = ExpectedPots(table.players)
    /\ ThreeLive_100_300_300 =>
         /\ audit.sidePots.pots = <<[amount |-> 300, eligibleIds |-> {0, 1, 2}],
                                   [amount |-> 400, eligibleIds |-> {1, 2}]>>
         /\ audit.sidePots.totalRefund = 0

C6_Witness == Computed /\ ThreeLive_100_300_300

(* ----------------------- Chips during a hand ---------------------------- *)
ActionLabels == {"fold", "check", "call", "raise"}
Chips(t) == SumStacks(t.players) + SumBets(t.players) + t.pot
CanAct(t) == {i \in DOMAIN t.players : CanActP(t.players[i])}
Alive(t) == {i \in DOMAIN t.players : Live(t.players[i])}
CurrentValid(t) == t.currentPlayerIdx \in Idx(t.players)

C2_SettlementConservesChips == audit.settled > 0 => audit.delta = 0

(* ----------------------------- Turn rotation ---------------------------- *)
\* C7: after a hand start or a player action, on a betting street the current
\* actor is a seat that is in the hand, not folded and not all-in
C7_CurrentActorCanAct ==
  (table.stage \in Betting
     /\ audit.ev \in {"start", "nextHandTimer"} \cup ActionLabels)
    => /\ CurrentValid(table)
       /\ CanActP(At(table.players, table.currentPlayerIdx))

\* C8: evaluated with two or more seats able to act after a bet or raise, the
\* street completes in that step exactly when no seat able to act is below the
\* table maximum bet; otherwise the turn passes to a seat able to act
C8_CompleteIffAllMatched ==
  [][(table.stage \in Betting /\ audit'.ev \in {"fold", "check", "call"}
        /\ audit'.evalN >= 2 /\ audit'.evalHasBet)
       => /\ (table'.stage # table.stage) <=> (audit'.evalBelow = 0)
          /\ audit'.evalBelow > 0
               => /\ CurrentValid(table')
                  /\ CanActP(At(table'.players, table'.currentPlayerIdx))
                  /\ table'.currentPlayerIdx # table.currentPlayerIdx]_vars

C8_Witness ==
  /\ audit.ev = "call"
  /\ audit.evalN = 3
  /\ audit.evalHasBet
  /\ audit.evalBelow = 0
  /\ audit.evalMaxBet = BIG_BLIND
  /\ table.stage = "turn"

\* C9: on a street without bet or raise where two or more seats can act, no
\* seat that has already acted on the street is given the turn again
C9_OnePassWithoutBet ==
  (table.stage \in Betting /\ ~table.hasBetOrRaise
     /\ audit.ev \in {"fold", "check", "call"}
     /\ Cardinality(CanAct(table)) >= 2 /\ CurrentValid(table))
    => At(table.players, table.currentPlayerIdx).id \notin audit.acted

\* C10: no event leaves a betting street on which nobody can act while two or
\* more live seats remain
C10_NoStalledStreet ==
  table.stage \in Betting => ~(CanAct(table) = {} /\ Cardinality(Alive(table)) >= 2)

(* --------------------------- Dropped actions ---------------------------- *)
\* an action the engine is to ignore: from a seat that is not the current
\* actor, not in the hand or folded, or a check while the seat owes chips
Dropped(t, idx, action) ==
  \/ idx # t.currentPlayerIdx
  \/ ~At(t.players, idx).inHand
  \/ At(t.players, idx).folded
  \/ action = "check" /\ maxBet(t.players) - At(t.players, idx).bet > 0

\* C11: in every reachable state, handleAction leaves the whole table unchanged
\* for every action of a seat that is not the current actor, not in the hand
\* or folded, and for a check of a seat that still owes chips
C11_DroppedActionsChangeNothing ==
  \A idx \in Idx(table.players), action \in PlayerActions, amount \in Amounts :
    Dropped(table, idx, action)
      => TableOf(handleAction(WithAudit(table, audit), idx, action, amount, FlatRank))
           = table

\* a betting street where the current actor owes chips (its check is dropped),
\* another seat has folded and a third waits for its turn
C11_Witness ==
  /\ table.stage \in Betting
  /\ CurrentValid(table)
  /\ Live(At(table.players, table.currentPlayerIdx))
  /\ maxBet(table.players) - At(table.players, table.currentPlayerIdx).bet > 0
  /\ \E i \in DOMAIN table.players : table.players[i].inHand /\ table.players[i].folded
  /\ \E i \in Idx(table.players) : i # table.currentPlayerIdx /\ Live(At(table.players, i))

\* C12: while the stage is not a betting street, no player action of a
\* connected seat changes the table
C12_NoActionOutsideBetting ==
  table.stage \notin Betting
    => \A idx \in Idx(table.players), action \in PlayerActions, amount \in Amounts :
         At(table.players, idx).conn
           => TableOf(handleAction(WithAudit(table, audit), idx, action, amount, FlatRank))
                = table

(* ------------------------ A heads-up hand checked down ------------------ *)
\* a hand dealt to two seats that both came with more than a big blind, both
\* still live and connected, in which nobody has bet or raised so far
HeadsUpQuiet ==
  /\ audit.dealt = 2
  /\ Len(table.players) = 2
  /\ table.stage \in Betting
  /\ ~table.hasBetOrRaise
  /\ \A i \in DOMAIN table.players :
       /\ CanActP(table.players[i])
       /\ table.players[i].conn
       /\ table.players[i].committed <= BIG_BLIND
       /\ table.players[i].stack + table.players[i].committed > BIG_BLIND

\* C13: in such a hand the first call or check of a street passes the turn to
\* the other seat, the second one closes the street, and the second check on
\* the river, with a big blind committed by each seat, settles the hand with
\* five community cards, a pot of two big blinds, and stacks that add up to
\* what they were, each seat getting nothing, one or two big blinds back
C13_HeadsUpCheckDown ==
  [][(HeadsUpQuiet /\ audit'.ev \in {"check", "call"})
       => /\ audit.acted = {}
               => /\ table'.stage = table.stage
                  /\ table'.currentPlayerIdx # table.currentPlayerIdx
                  /\ CanActP(At(table'.players, table'.currentPlayerIdx))
          /\ Cardinality(audit.acted) = 1
               => table'.stage = nextStage(table.stage)
          /\ (Cardinality(audit.acted) = 1 /\ table.stage = "river"
                /\ \A i \in DOMAIN table.players :
                     table.players[i].committed = BIG_BLIND)
               => /\ table'.stage = "showdown"
                  /\ audit'.settled = 1
                  /\ table'.community = 5
                  /\ table.pot = 2 * BIG_BLIND
                  /\ table'.pot = 0
                  /\ Len(table'.players) = 2
                  /\ SumStacks(table'.players) = SumStacks(table.players) + 2 * BIG_BLIND
                  /\ \A i \in DOMAIN table.players :
                       table'.players[i].stack - table.players[i].stack
                         \in {0, BIG_BLIND, 2 * BIG_BLIND}]_vars

C13_Witness ==
  /\ audit.ev = "check"
  /\ audit.dealt = 2
  /\ audit.settled = 1
  /\ table.stage = "showdown"
  /\ table.community = 5
  /\ Len(table.players) = 2
  /\ \A i \in DOMAIN table.players : table.players[i].committed = BIG_BLIND
  /\ \E i \in DOMAIN table.players : table.players[i].stack = STARTING_STACK + BIG_BLIND

(* ------------------------------ Hand start ------------------------------ *)
\* the state right after an event that dealt a hand
HandJustStarted ==
  /\ audit.ev \in {"start", "nextHandTimer", "nextHandNow"}
  /\ table.stage = "preflop"
  /\ audit.dealt = Len(table.players)

\* C14: right after a hand start the small blind seat (the dealer in a 2-seat
\* hand, the seat after the dealer otherwise) and the next seat hold the
\* blinds, each capped at the stack, no other seat has a bet, and the first
\* actor is the seat after the big blind
C14_BlindsAndFirstToAct ==
  HandJustStarted =>
    LET n == Len(table.players)
        ps == table.players
        sb == IF n = 2 THEN table.dealerBtn ELSE (table.dealerBtn + 1) % n
        bb == (sb + 1) % n
        blindOf(i) == IF i = sb THEN SMALL_BLIND ELSE IF i = bb THEN BIG_BLIND ELSE 0
    IN /\ \A i \in Idx(ps) :
            At(ps, i).bet = Min2(blindOf(i), At(ps, i).stack + At(ps, i).bet)
       /\ table.currentPlayerIdx = (bb + 1) % n

(* --------------------------- State projections -------------------------- *)
\* STATE.players[STATE.currentPlayerIdx]?.id || null
currentPlayerId(t) ==
  IF t.currentPlayerIdx \in Idx(t.players)
  THEN At(t.players, t.currentPlayerIdx).id ELSE "null"

sanitizeForHost(t) ==
  [handId |-> t.handId, stage |-> t.stage, community |-> t.community, pot |-> t.pot,
   dealerBtn |-> t.dealerBtn, currentPlayerIdx |-> t.currentPlayerIdx,
   currentPlayerId |-> currentPlayerId(t), minRaiseTo |-> t.minRaiseTo,
   sidePots |-> t.sidePotsPreview,
   players |-> Tup([k \in DOMAIN t.players |->
                 LET p == t.players[k]
                 IN [id |-> p.id, seat |-> p.seat, stack |-> p.stack, inHand |-> p.inHand,
                     folded |-> p.folded, bet |-> p.bet, allIn |-> p.allIn,
                     committed |-> p.committed, cards |-> p.cards]])]

\* faulty variant: the entries of the other seats are copied with their cards
sanitizeForPlayerLeaky(t, idx) ==
  [handId |-> t.handId, stage |-> t.stage,
   community |-> IF t.stage = "lobby" THEN 0 ELSE t.community, pot |-> t.pot,
   dealerBtn |-> t.dealerBtn, currentPlayerIdx |-> t.currentPlayerIdx,
   currentPlayerId |-> currentPlayerId(t), minRaiseTo |-> t.minRaiseTo,
   me |-> At(t.players, idx),
   others |-> Tup([k \in DOMAIN t.players |->
                LET p == t.players[k]
                IN [id |-> p.id, seat |-> p.seat, stack |-> p.stack,
                    inHand |-> (p.inHand /\ ~p.folded), bet |-> p.bet,
                    cards |-> p.cards, isMe |-> (k - 1 = idx)]])]

sanitizeForPlayer(t, idx) ==
  LET me == At(t.players, idx)
  IN [handId |-> t.handId, stage |-> t.stage,
      community |-> IF t.stage = "lobby" THEN 0 ELSE t.community, pot |-> t.pot,
      dealerBtn |-> t.dealerBtn, currentPlayerIdx |-> t.currentPlayerIdx,
      currentPlayerId |-> currentPlayerId(t), minRaiseTo |-> t.minRaiseTo,
      me |-> [id |-> me.id, seat |-> me.seat, stack |-> me.stack, inHand |-> me.inHand,
              folded |-> me.folded, bet |-> me.bet, cards |-> me.cards],
      others |-> Tup([k \in DOMAIN t.players |->
                   LET p == t.players[k]
                   IN [id |-> p.id, seat |-> p.seat, stack |-> p.stack,
                       inHand |-> (p.inHand /\ ~p.folded), bet |-> p.bet,
                       isMe |-> (k - 1 = idx)]])]

\* what broadcastState emits: the host payload and one payload per seat that
\* has a socket
statePayloads(t) ==
  LET safeIdx == IF t.currentPlayerIdx >= 0 /\ t.currentPlayerIdx < Len(t.players)
                 THEN t.currentPlayerIdx ELSE -1
  IN [host |-> [sanitizeForHost(t) EXCEPT
                  !.currentPlayerIdx = safeIdx,
                  !.currentPlayerId = IF safeIdx = -1 THEN "null"
                                      ELSE At(t.players, safeIdx).id],
      seats |-> [idx \in {i \in Idx(t.players) : At(t.players, i).conn} |->
                   sanitizeForPlayer(t, idx)]]

(* ---------------- The projections as functions of the table ------------- *)
MaxViewSeats == 3
Holes == {<<>>, <<"As", "Kd">>, <<"7c", "2h">>}
ViewStages == {"lobby", "preflop", "showdown"}

viewSeat(k, hole, fl) ==
  [id |-> k - 1, seat |-> k - 1, conn |-> fl[1], stack |-> STARTING_STACK - k,
   inHand |-> fl[1], folded |-> fl[2], bet |-> 0, cards |-> hole, allIn |-> FALSE,
   committed |-> k]

ViewInputs == UNION {[1..n -> Holes \X SeatFlags] : n \in 2..MaxViewSeats}

ViewInit ==
  \E f \in ViewInputs, stage \in ViewStages, cur \in {-1, 0, MaxViewSeats - 1} :
    /\ table = [InitTable EXCEPT
                  !.stage = stage, !.handId = 1, !.hasStarted = TRUE,
                  !.tableOpen = FALSE, !.dealerBtn = 0, !.currentPlayerIdx = cur,
                  !.community = IF stage = "showdown" THEN 5 ELSE 0,
                  !.players = Tup([k \in DOMAIN f |-> viewSeat(k, f[k][1], f[k][2])])]
    /\ audit = NoAudit

\* socket.on('host:join'): a snapshot is requested
HostJoin ==
  /\ table' = TableOf(broadcastState(WithAudit(table, audit)))
  /\ audit' = [NoAudit EXCEPT !.ev = "emit",
                              !.shown = broadcastState(WithAudit(table, NoAudit)).audit.shown,
                              !.payload = statePayloads(table')]

ViewNext == HostJoin

SpecViews == ViewInit /\ [][ViewNext]_vars

Emitted == audit.ev = "emit"

\* the table with the hole cards of every seat but idx replaced by h
Redealt(t, idx, h) ==
  [t EXCEPT !.players = Tup([k \in DOMAIN t.players |->
              IF k - 1 = idx THEN t.players[k] ELSE [t.players[k] EXCEPT !.cards = h[k]]])]

\* C15: the payload sent to a seat equals the projection of every table that
\* differs from the current one only in the other seats' hole cards, and none
\* of its entries for the seats carries a cards field
C15_ViewHidesOtherHoleCards ==
  Emitted =>
    \A idx \in DOMAIN audit.payload.seats :
      /\ \A h \in [DOMAIN table.players -> Holes] :
           sanitizeForPlayer(Redealt(table, idx, h), idx) = audit.payload.seats[idx]
      /\ \A k \in DOMAIN audit.payload.seats[idx].others :
           "cards" \notin DOMAIN audit.payload.seats[idx].others[k]

C15_Witness ==
  /\ Emitted
  /\ \E idx \in DOMAIN audit.payload.seats :
       /\ audit.payload.seats[idx].me.cards = <<"As", "Kd">>
       /\ \E k \in DOMAIN table.players :
            k - 1 # idx /\ table.players[k].cards = <<"7c", "2h">>

BoardFits(stage, community) ==
  CASE stage \in {"lobby", "preflop"} -> community = 0
    [] stage = "flop" -> community = 3
    [] stage = "turn" -> community = 4
    [] stage = "river" -> community = 5
    [] OTHER -> community \in {0, 3, 4, 5}

\* C17: after every event the table's community cards match its stage, and so
\* does every snapshot broadcast while the event was processed
C17_CommunityMatchesStage ==
  /\ BoardFits(table.stage, table.community)
  /\ \A s \in audit.shown : BoardFits(s[1], s[2])

C17_Witness ==
  /\ audit.ev = "nextHandNow"
  /\ <<"showdown", 4>> \in audit.shown
  /\ <<"preflop", 0>> \in audit.shown
  /\ table.stage = "preflop"

(* ------------------------------ Stage order ----------------------------- *)
StageNo(stage) ==
  CASE stage = "lobby" -> 0
    [] stage = "preflop" -> 1
    [] stage = "flop" -> 2
    [] stage = "turn" -> 3
    [] stage = "river" -> 4
    [] OTHER -> 5

\* one move along lobby -> preflop -> flop -> turn -> river -> showdown ->
\* (lobby or preflop), a betting street being allowed to go to showdown
StageStep(s, t) ==
  \/ StageNo(t) = StageNo(s) + 1
  \/ s \in Betting /\ t = "showdown"
  \/ s = "showdown" /\ t \in {"lobby", "preflop"}

\* the event left the stage and the hand where they were
SameStage == table'.stage = table.stage /\ table'.handId = table.handId

\* the event settled the running hand (a showdown snapshot was sent) and
\* dealt the next one
ViaShowdown ==
  /\ table.stage \in Betting \cup {"showdown"}
  /\ \E s \in audit'.shown : s[1] = "showdown"
  /\ table'.stage = "preflop"
  /\ table'.handId = table.handId + 1

\* C18 as stated: every event keeps the stage, moves it one step along the
\* chain, or passes through showdown into the preflop of the next hand
C18_StageOrder ==
  [][SameStage \/ StageStep(table.stage, table'.stage) \/ ViaShowdown]_vars

\* C18: the same, except that the host's end-game reset returns the table
\* to the lobby from whatever stage it is in
C18_StageOrderOrReset ==
  [][\/ SameStage
     \/ StageStep(table.stage, table'.stage)
     \/ ViaShowdown
     \/ audit'.ev = "endGame" /\ table' = InitTable]_vars

C18_Witness ==
  /\ audit.ev = "endGame"
  /\ audit.from = "turn"
  /\ table.stage = "lobby"

(* ------------------------------- Watchdog ------------------------------- *)
\* C19: after every event the watchdog timer is pending exactly when the
\* stage is a betting street
C19_WatchdogPendingIffBetting ==
  table.watchdogTimer = "pending" <=> table.stage \in Betting

\* an applied action on a betting street that left the table on a street
C19_Witness ==
  /\ audit.ev \in {"check", "call", "raise"}
  /\ audit.from \in Betting
  /\ table.stage \in Betting
  /\ table.watchdogTimer = "pending"

(* ----------------------- A table left to its timers --------------------- *)
\* the watchdog's callback, as often as the timer is armed
WatchdogTimeout ==
  /\ table.watchdogTimer = "pending"
  /\ \E R \in {advanceStage([Begin("watchdog") EXCEPT !.watchdogTimer = "stale"], FlatRank)} :
       \E rank \in RanksFor(R) :
         Commit(IF rank = FlatRank THEN R
                ELSE advanceStage([Begin("watchdog") EXCEPT !.watchdogTimer = "stale"], rank))

\* the inter-hand timer fires; a second hand is followed heads-up only
MaxRematchSeats == 2
Rematch ==
  /\ Len(table.players) <= MaxRematchSeats
  /\ NextHandTimerFire

StallNext ==
  \/ Join
  \/ HostStart
  \/ PlayerAction
  \/ Disconnect
  \/ WatchdogTimeout
  \/ Rematch

\* An armed setTimeout fires unless it is cleared: weak fairness of
\* WatchdogTimeout, written out. WatchdogTimeout is enabled exactly when the
\* timer is pending (its step changes neither handId nor the budget), and it
\* is the only step that labels the history "watchdog".
WatchdogFair ==
  \/ []<>(table.watchdogTimer # "pending")
  \/ []<><<audit'.ev = "watchdog">>_vars

SpecStall == Init /\ [][StallNext]_vars /\ WatchdogFair

C21_NextHandTimerOnlyInShowdown ==
  /\ audit.liveTimers = (IF table.nextHandTimer = "pending" THEN 1 ELSE 0)
  /\ table.nextHandTimer = "pending" => table.stage = "showdown"
  /\ audit.ev \in {"nextHandNow", "endGame"} => table.nextHandTimer # "pending"
  /\ audit.ev = "nextHandTimer" => audit.from = "showdown"

\* a hand settled a second time while its next-hand timeout was pending
C21_Witness ==
  /\ audit.settles = 2
  /\ table.stage = "showdown"
  /\ table.nextHandTimer = "pending"
  /\ audit.liveTimers = 1

(* ----------------------------- After settlement ------------------------- *)
\* the event ended with the settlement of a hand
JustSettled == audit.settled > 0 /\ audit.ev # "nextHandNow"

\* C22: after settlement no seat with an empty stack is seated; with two or
\* more seats left the next-hand timer is pending, otherwise the table is back
\* in the lobby with no next-hand timer pending
C22_SettledTableScheduledOrLobby ==
  JustSettled =>
    /\ \A i \in DOMAIN table.players : table.players[i].stack > 0
    /\ IF Len(table.players) >= 2
       THEN table.nextHandTimer = "pending"
       ELSE table.stage = "lobby" /\ table.nextHandTimer # "pending"

(* ---------------------------- Host force-advance ------------------------ *)
\* socket.on('disconnect'), as often as there is a link to drop
LinkDrop ==
  \E i \in DOMAIN table.players :
    /\ table.players[i].conn
    /\ Commit(broadcastState(updateSidePotsPreview(
         [Begin("disconnect") EXCEPT !.players[i].inHand = FALSE,
                                     !.players[i].folded = TRUE,
                                     !.players[i].conn = FALSE])))

\* socket.on('host:nextHandNow'), as often as the host asks
ForceAdvance ==
  \E R \in {nextHandNow(Begin("nextHandNow"), FlatRank)} :
    \E rank \in RanksFor(R) :
      Commit(IF rank = FlatRank THEN R ELSE nextHandNow(Begin("nextHandNow"), rank))

\* socket.on('player:join') at a table followed heads-up
MaxForceSeats == 2
ForceJoin ==
  /\ Len(table.players) < MaxForceSeats
  /\ Join

ForceNext ==
  \/ ForceJoin
  \/ HostStart
  \/ PlayerAction
  \/ LinkDrop
  \/ ForceAdvance

SpecForce == Init /\ [][ForceNext]_vars

\* C23: a host force-advance from a betting street settles the hand within
\* the event: every bet is swept, the pot paid out and left at 0, no seat with
\* an empty stack stays; with two or more seats left it ends in the preflop of
\* a freshly dealt hand, handId one higher, no next-hand timer pending
C23_ForceAdvanceSettlesAndRedeals ==
  [][(audit'.ev = "nextHandNow" /\ table.stage \in Betting) =>
       /\ audit'.settled = 1
       /\ audit'.delta = 0
       /\ \E s \in audit'.shown : s[1] = "showdown"
       /\ table'.pot = 0
       /\ table'.nextHandTimer # "pending"
       /\ IF table'.stage = "preflop"
          THEN /\ Len(table'.players) >= 2
               /\ table'.handId = table.handId + 1
               /\ audit'.dealt = Len(table'.players)
               /\ table'.community = 0
               /\ \A i \in DOMAIN table'.players :
                    /\ table'.players[i].stack + table'.players[i].bet > 0
                    /\ table'.players[i].committed = table'.players[i].bet
                    /\ table'.players[i].cards = 2
               /\ SumBets(table'.players) <= SMALL_BLIND + BIG_BLIND
          ELSE /\ Len(table'.players) < 2
               /\ table'.stage = "showdown"
               /\ table'.handId = table.handId
               /\ SumBets(table'.players) = 0]_vars

(* ------------------------------ Dropped links --------------------------- *)
\* the seats whose link dropped during the hand that is being played
DroppedSeats(t) ==
  {i \in Idx(t.players) : ~At(t.players, i).conn /\ At(t.players, i).folded}

\* C24: while a hand is on a betting street a seat whose link dropped is
\* folded, out of the hand and never the current actor
C24_DroppedSeatNeverActs ==
  table.stage \in Betting =>
    \A i \in DroppedSeats(table) :
      /\ ~At(table.players, i).inHand
      /\ table.currentPlayerIdx # i

(* --------------------------------- All-in ------------------------------- *)
\* C25: on a betting street a seat that is in the hand and not folded is
\* marked all-in exactly when its stack is 0
C25_AllInIffEmptyStack ==
  table.stage \in Betting =>
    \A i \in Alive(table) : table.players[i].allIn <=> table.players[i].stack = 0

(* ------------------------------ Seat amounts ---------------------------- *)
\* requested raise amounts, the negative, the zero and the oversized included
WideAmounts == {-100, 0, 30, 2000, 5000}

SeatsSound(t) ==
  \A i \in DOMAIN t.players :
    /\ t.players[i].committed >= t.players[i].bet
    /\ t.players[i].bet >= 0
    /\ t.players[i].stack >= 0

\* C26: in every reachable state, and after a bet or raise of any requested
\* amount applied to it, every seat has committed >= bet >= 0 and stack >= 0
C26_SeatAmountsSound ==
  /\ SeatsSound(table)
  /\ \A idx \in Idx(table.players), amount \in WideAmounts :
       SeatsSound(TableOf(handleAction(WithAudit(table, audit), idx, "raise", amount, FlatRank)))

\* a raise whose requested amount exceeded the stack
C26_Witness ==
  /\ audit.ev = "raise"
  /\ table.stage \in Betting
  /\ \E i \in DOMAIN table.players :
       /\ table.players[i].id \in audit.acted
       /\ table.players[i].stack = 0
       /\ table.players[i].bet = STARTING_STACK
       /\ table.players[i].committed = STARTING_STACK

(* ------------------------------ Chips in play --------------------------- *)
\* C27: the chips on the table never exceed the starting stacks of the seats
\* joined since the last reset
C27_ChipsNeverExceedBuyIns ==
  Chips(table) <= STARTING_STACK * audit.joined

\* the events that C28 names
HandEvents == ActionLabels \cup {"watchdog", "disconnect"}

\* C28: on a betting street a player action, a watchdog advance or a
\* disconnect keeps stacks + street bets + pot as it was; when the event
\* settles the hand, the chips settlement found are the chips there were
C28_ChipsConstantUntilSettlement ==
  [][(table.stage \in Betting /\ audit'.ev \in HandEvents) =>
       IF audit'.settled = 0
       THEN Chips(table') = Chips(table)
       ELSE SumStacks(table'.players) = Chips(table) + audit'.delta]_vars

\* a watchdog advance that swept the street's bets into the pot
C28_Witness ==
  /\ audit.ev = "watchdog"
  /\ audit.settled = 0
  /\ table.stage = "flop"
  /\ table.pot > SMALL_BLIND + BIG_BLIND
  /\ SumBets(table.players) = 0

\* C29: on a betting street the pot and the street bets together are the
\* chips the seated players have committed to the hand
C29_PotAndBetsAreCommitted ==
  table.stage \in Betting =>
    table.pot + SumBets(table.players) = SumCommitted(table.players)

(* --------------------------- One seat left to act ----------------------- *)
\* the round-completion rule ran with exactly one seat able to act
LoneActorRuled == audit'.ev \in ActionLabels /\ audit'.evalN = 1

\* C30: when exactly one seat can still act after an action, the stage
\* advances in that step if the seat's bet is the table maximum; otherwise
\* the stage stays and that seat is the current actor
C30_LoneActorMatchesOrActs ==
  [][(table.stage \in Betting /\ LoneActorRuled) =>
       IF audit'.evalBelow = 0
       THEN table'.stage \in {nextStage(table.stage), "showdown"}
       ELSE /\ table'.stage = table.stage
            /\ CurrentValid(table')
            /\ CanActP(At(table'.players, table'.currentPlayerIdx))
            /\ At(table'.players, table'.currentPlayerIdx).bet < audit'.evalMaxBet
            /\ Cardinality(CanAct(table')) = 1]_vars

\* a call that left one seat able to act, its bet matched: the flop was dealt
C30_Witness ==
  /\ audit.ev = "call"
  /\ audit.from = "preflop"
  /\ audit.evalN = 1
  /\ audit.evalBelow = 0
  /\ table.stage = "flop"
  /\ Cardinality(CanAct(table)) = 1

(* ------------------------------ Bet and raise --------------------------- *)
\* what C31 says of a bet or raise of amount a by seat idx of t, giving u
RaiseAsClaimed(t, u, idx, a) ==
  LET p == At(t.players, idx)
      q == At(u.players, idx)
      toCall == maxBet(t.players) - p.bet
      r == Max2(a, Max2(t.minRaiseTo, BIG_BLIND))
      pay == Min2(toCall + r, p.stack)
  IN /\ q.stack = p.stack - pay
     /\ q.bet = p.bet + pay
     /\ q.committed = p.committed + pay
     /\ \A j \in Idx(t.players) : j # idx => At(u.players, j) = At(t.players, j)
     /\ u.minRaiseTo = r
     /\ u.hasBetOrRaise
     /\ u.lastRaiserIdx = idx
     /\ u.currentPlayerIdx = nextActivePlayer(u.players, idx)
     /\ u.stage = t.stage /\ u.pot = t.pot /\ u.community = t.community
     /\ pay = toCall + r =>
          \A j \in Idx(u.players) : j # idx => q.bet > At(u.players, j).bet

\* C31: in every reachable state, a bet or raise of any requested amount by
\* the current actor has the effect C31 describes
C31_RaisePaysAndReopens ==
  \A idx \in Idx(table.players), amount \in WideAmounts :
    Applies(table, idx, "raise") =>
      RaiseAsClaimed(table,
                     TableOf(handleAction(WithAudit(table, audit), idx, "raise", amount, FlatRank)),
                     idx, amount)

\* a minimum raise on the flop, not capped by the stack
C31_Witness ==
  /\ audit.ev = "raise"
  /\ table.stage = "flop"
  /\ table.minRaiseTo = BIG_BLIND
  /\ table.hasBetOrRaise
  /\ table.lastRaiserIdx \in Idx(table.players)
  /\ At(table.players, table.lastRaiserIdx).stack > 0
  /\ At(table.players, table.lastRaiserIdx).bet = BIG_BLIND

(* ---------------------------------- Call -------------------------------- *)
\* the highest street bet on the table
TableMax(t) == CHOOSE m \in {t.players[i].bet : i \in DOMAIN t.players} :
                 \A i \in DOMAIN t.players : t.players[i].bet <= m

\* what a call pays: min(toCall, stack)
CallPays(t) ==
  LET p == At(t.players, t.currentPlayerIdx)
  IN Min2(TableMax(t) - p.bet, p.stack)

\* the effect C32 gives a call by the current actor of t, u being the result
CallAsClaimed(t, u) ==
  LET idx == t.currentPlayerIdx
      p == At(t.players, idx)
      q == At(u.players, idx)
  IN /\ Len(u.players) = Len(t.players)
     /\ q.stack = p.stack - CallPays(t)
     /\ q.bet = p.bet + CallPays(t)
     /\ q.committed = p.committed + CallPays(t)
     /\ q.allIn = (p.allIn \/ q.stack = 0)
     /\ u.minRaiseTo = t.minRaiseTo
     /\ u.hasBetOrRaise = t.hasBetOrRaise
     /\ u.lastRaiserIdx = t.lastRaiserIdx
     /\ q.bet = TableMax(t) \/ q.allIn

CallStep == table.stage \in Betting /\ audit'.ev = "call"

\* C32 as claimed: every call on a betting street has that effect
C32_CallPaysToCall == [][CallStep => CallAsClaimed(table, table')]_vars

\* the call closed the street or the hand
CallClosed == table'.stage # table.stage \/ audit'.settled > 0

\* C32: a call that leaves the street open has that effect; a call that
\* closes the street has paid the same amount into committed, and on the
\* street it opens the bets are swept and the street bookkeeping is reset
C32_CallPaysUnlessStreetCloses ==
  [][CallStep =>
       IF ~CallClosed THEN CallAsClaimed(table, table')
       ELSE /\ \A i \in DOMAIN table'.players :
                 table'.players[i].id = At(table.players, table.currentPlayerIdx).id
                   => table'.players[i].committed
                        = At(table.players, table.currentPlayerIdx).committed + CallPays(table)
            /\ SumBets(table'.players) = 0
            /\ table'.stage \in Betting =>
                 /\ table'.minRaiseTo = BIG_BLIND
                 /\ ~table'.hasBetOrRaise
                 /\ table'.lastRaiserIdx = -1
                 /\ table'.pot = table.pot + SumBets(table.players) + CallPays(table)]_vars

\* a call of a raise that emptied the caller's stack and left the street open
C32_Witness ==
  /\ audit.ev = "call"
  /\ audit.from = table.stage
  /\ table.stage \in Betting
  /\ table.hasBetOrRaise
  /\ \E i \in DOMAIN table.players :
       /\ table.players[i].id \in audit.acted
       /\ table.players[i].allIn
       /\ table.players[i].stack = 0
       /\ table.players[i].bet > BIG_BLIND
  /\ \E j \in DOMAIN table.players :
       CanActP(table.players[j]) /\ table.players[j].bet < TableMax(table)

(* ----------------------------- Street advance --------------------------- *)
\* the seats of t in seat-list order after index from, wrapping, as offsets
LiveOffsets(t, from) ==
  {k \in 1..Len(t.players) : Live(At(t.players, (from + k) % Len(t.players)))}

\* the first live seat after index from
FirstLiveAfter(t, from) ==
  (from + (CHOOSE k \in LiveOffsets(t, from) :
             \A m \in LiveOffsets(t, from) : k <= m)) % Len(t.players)

\* the step opened the flop, the turn or the river of the running hand
StreetOpened ==
  /\ table.stage \in Betting
  /\ table'.stage \in {"flop", "turn", "river"}
  /\ table'.stage # table.stage

\* C33: a step that opens the flop, turn or river leaves two or more live
\* seats, every bet at 0 and swept into the pot, the street bookkeeping
\* reset, and the turn with the first live seat after the dealer button
C33_StreetOpensClean ==
  [][StreetOpened =>
       /\ Cardinality(Alive(table')) >= 2
       /\ \A i \in DOMAIN table'.players : table'.players[i].bet = 0
       /\ table'.pot = table.pot + SumBets(table.players)
                         + (SumStacks(table.players) - SumStacks(table'.players))
       /\ table'.minRaiseTo = BIG_BLIND
       /\ ~table'.hasBetOrRaise
       /\ table'.lastRaiserIdx = -1
       /\ table'.currentPlayerIdx = table'.roundFirstIdx
       /\ table'.currentPlayerIdx = FirstLiveAfter(table', table'.dealerBtn)]_vars

\* the turn opened with the seat next to the button folded
C33_Witness ==
  /\ audit.from = "flop"
  /\ table.stage = "turn"
  /\ Len(table.players) = 3
  /\ At(table.players, (table.dealerBtn + 1) % 3).folded
  /\ table.currentPlayerIdx = (table.dealerBtn + 2) % 3
  /\ table.pot > 0

(* ------------------------------ Last seat wins -------------------------- *)
\* the live seats of t other than its current actor
OtherLive(t) == Alive(t) \ {t.currentPlayerIdx + 1}

\* a fold by the current actor that leaves exactly one live seat
FoldLeavesOne ==
  /\ audit'.ev = "fold"
  /\ table.stage \in Betting
  /\ Cardinality(OtherLive(table)) = 1

\* C34: such a fold takes the hand to showdown in that step, deals no card,
\* pays the pot and every street bet to the remaining seat and leaves pot = 0,
\* with no round evaluation, hand ranking or side-pot computation
C34_LastSeatTakesAll ==
  [][FoldLeavesOne =>
       LET w == table.players[CHOOSE i \in OtherLive(table) : TRUE]
       IN /\ table'.stage = "showdown"
          /\ table'.community = table.community
          /\ table'.pot = 0
          /\ \E i \in DOMAIN table'.players :
               /\ table'.players[i].id = w.id
               /\ table'.players[i].stack = w.stack + table.pot + SumBets(table.players)
          /\ audit'.settled = 1
          /\ audit'.settledAlive = 1
          /\ audit'.sidePots = NoSidePots
          /\ audit'.evalN = -1]_vars

\* the big blind took the blinds and a call after the other two seats folded
C34_Witness ==
  /\ audit.ev = "fold"
  /\ audit.from = "preflop"
  /\ table.stage = "showdown"
  /\ table.community = 0
  /\ table.pot = 0
  /\ Len(table.players) = 3
  /\ \E i \in DOMAIN table.players :
       table.players[i].stack = STARTING_STACK + SMALL_BLIND

(* ------------------- One pot awarded at a showdown ---------------------- *)
MaxAwardSeats == 3
MaxAward == 5

\* the seat numbers of n players in table order: any order, as seats are freed
\* and taken again
SeatOrders(n) == {s \in [1..n -> 0..(n - 1)] : \A a, b \in 1..n : s[a] = s[b] => a = b}

awardSeat(k, seat, fl) ==
  [id |-> k - 1, seat |-> seat, conn |-> fl[1], stack |-> STARTING_STACK,
   inHand |-> fl[1], folded |-> fl[2], bet |-> 0, cards |-> 2, allIn |-> FALSE,
   committed |-> 0]

AwardInit ==
  \E n \in 1..MaxAwardSeats :
    \E seats \in SeatOrders(n), fl \in [1..n -> SeatFlags], amount \in 0..MaxAward,
       eligibleIds \in SUBSET (0..(n - 1)), rank \in [0..(n - 1) -> Ranks] :
      /\ table = [InitTable EXCEPT
                    !.stage = "showdown", !.handId = 1, !.hasStarted = TRUE,
                    !.tableOpen = FALSE, !.dealerBtn = 0, !.community = 5,
                    !.players = Tup([k \in 1..n |-> awardSeat(k, seats[k], fl[k])])]
      /\ audit = [NoAudit EXCEPT
                    !.sidePots.pots = <<[amount |-> amount, eligibleIds |-> eligibleIds]>>,
                    !.payload = rank]

\* for (const pot of pots) awardPot(pot, results), results = evaluateHands(alive)
AwardOnePot ==
  /\ audit.ev = "init"
  /\ table' = [table EXCEPT !.players =
                 awardPot(table.players, audit.sidePots.pots[1],
                          {table.players[i].id : i \in Alive(table)}, audit.payload)]
  /\ audit' = [audit EXCEPT !.ev = "award"]

AwardNext == AwardOnePot

SpecAward == AwardInit /\ [][AwardNext]_vars

\* the eligible contenders of the pot and those of them no other one beats
PotContenders == {i \in Alive(table) : table.players[i].id \in audit.sidePots.pots[1].eligibleIds}
PotWinners ==
  {i \in PotContenders :
     \A j \in PotContenders :
       audit.payload[table.players[i].id] >= audit.payload[table.players[j].id]}
LowerSeated(i) == {j \in PotWinners : table.players[j].seat < table.players[i].seat}

\* C35: a pot of A awarded to k >= 1 winners pays out exactly A: every winner
\* gets A div k, the A mod k winners of lowest seat number one chip more, and
\* every other seat nothing
C35_PotSplitExact ==
  [][LET A == audit.sidePots.pots[1].amount
         k == Cardinality(PotWinners)
         got(i) == table'.players[i].stack - table.players[i].stack
     IN k >= 1 =>
          /\ SumStacks(table'.players) = SumStacks(table.players) + A
          /\ \A i \in DOMAIN table.players :
               got(i) = IF i \in PotWinners
                        THEN (A \div k) + (IF Cardinality(LowerSeated(i)) < A % k THEN 1 ELSE 0)
                        ELSE 0]_vars

\* two winners split an odd pot, the odd chip going to the lower seat, which
\* sits later at the table
C35_Witness ==
  /\ audit.ev = "award"
  /\ audit.sidePots.pots[1].amount = 5
  /\ Len(table.players) = 3
  /\ table.players[1].stack = STARTING_STACK + 2
  /\ table.players[3].stack = STARTING_STACK + 3
  /\ table.players[3].seat < table.players[1].seat
  /\ table.players[2].stack = STARTING_STACK
  /\ Live(table.players[2])

(* ----------------------- The side-pot preview --------------------------- *)
\* updateSidePotsPreview() on a table with chips committed
UpdatePreview ==
  /\ audit.ev = "init"
  /\ table' = TableOf(updateSidePotsPreview(WithAudit(table, audit)))
  /\ audit' = [audit EXCEPT !.ev = "preview"]

PreviewNext == UpdatePreview

SpecPreview == PotInit /\ [][PreviewNext]_vars

PreviewLevels(ps) == {L \in LevelSet(ps) : Cardinality(LiveReach(ps, L)) >= 2}

ExpectedPreview(ps) ==
  Tup([k \in 1..Cardinality(PreviewLevels(ps)) |->
         LET L == Kth(PreviewLevels(ps), k)
         IN [amount |-> Width(ps, L) * Cardinality(Reach(ps, L)),
             eligibleCount |-> Cardinality(LiveReach(ps, L))]])

\* a folded seat at 100 and two live seats at 300
FoldedBelowTwoLive ==
  /\ Len(table.players) = 3
  /\ table.players[1].committed = 100
  /\ table.players[1].inHand /\ table.players[1].folded
  /\ \A i \in 2..3 : Live(table.players[i]) /\ table.players[i].committed = 300

\* C36: the preview changes nothing but the preview itself, and lists, in
\* ascending order of level, exactly the bands reached by two or more live
\* seats, each with amount = band x seats reaching the level (folded included)
\* and eligibleCount = live seats reaching the level
C36_PreviewByLevel ==
  [][/\ [table' EXCEPT !.sidePotsPreview = <<>>] = [table EXCEPT !.sidePotsPreview = <<>>]
     /\ table'.sidePotsPreview = ExpectedPreview(table.players)
     /\ FoldedBelowTwoLive =>
          table'.sidePotsPreview = <<[amount |-> 300, eligibleCount |-> 2],
                                     [amount |-> 400, eligibleCount |-> 2]>>]_vars

C36_Witness ==
  /\ audit.ev = "preview"
  /\ FoldedBelowTwoLive
  /\ Len(table.sidePotsPreview) = 2

(* --------------------------- The dealer button -------------------------- *)
SeatedIds(t) == {t.players[i].id : i \in DOMAIN t.players}
DealerId(t) == At(t.players, t.dealerBtn).id

\* the first player after the dealer of the last hand, in the order of that
\* hand, who is still seated
NextOnButton(ring, ids) ==
  LET later == SelectSeq(Tail(ring), LAMBDA id : id \in ids)
  IN IF later # <<>> THEN later[1] ELSE ring[1]

\* a hand is dealt after an earlier one
NextHandDealt == table'.handId = table.handId + 1 /\ audit.ring # <<>>

\* C37: a hand start gives the button to the first player after the previous
\* dealer, in table order, who is still seated, also when players were removed
\* since the previous hand start
C37_ButtonMovesOneSeat ==
  [][NextHandDealt =>
       DealerId(table') = NextOnButton(audit.ring, SeatedIds(table'))]_vars

(* ----------------------------- Folded seats ----------------------------- *)
\* a step inside a hand that does not settle it
HandGoesOn ==
  /\ table.stage \in Betting
  /\ table'.handId = table.handId
  /\ audit'.settled = 0

\* the seat of table t that player p holds, if p is still seated
SeatOf(t, p) == {i \in DOMAIN t.players : t.players[i].id = p.id}

\* C38 as claimed: a folded seat keeps its bet and its committed in every step
\* of the hand before the settlement
C38_FoldedSeatFrozen ==
  [][HandGoesOn =>
       \A i \in DOMAIN table.players :
         table.players[i].folded =>
           \A j \in SeatOf(table', table.players[i]) :
             /\ table'.players[j].bet = table.players[i].bet
             /\ table'.players[j].committed = table.players[i].committed]_vars

\* C38 as amended: a folded seat keeps its committed in every step of the hand
\* before the settlement; it keeps its bet until the street is swept, and the
\* sweep sets it to 0
C38_FoldedSeatCommittedFrozen ==
  [][HandGoesOn =>
       \A i \in DOMAIN table.players :
         table.players[i].folded =>
           \A j \in SeatOf(table', table.players[i]) :
             /\ table'.players[j].folded
             /\ table'.players[j].committed = table.players[i].committed
             /\ table'.players[j].bet =
                  IF table'.stage = table.stage THEN table.players[i].bet ELSE 0]_vars

\* the small blind has folded before the flop, the others have played on and
\* the flop is out
C38_Witness ==
  /\ table.stage = "flop"
  /\ audit.ev \in {"call", "check"} /\ audit.from = "preflop"
  /\ \E i \in DOMAIN table.players :
       /\ table.players[i].folded /\ table.players[i].inHand
       /\ table.players[i].bet = 0
       /\ table.players[i].committed = SMALL_BLIND

(* ------------------------ One showdown settled -------------------------- *)
\* finishHand() on a table with chips committed, for any ranking of the hands
Showdown ==
  /\ audit.ev = "init"
  /\ \E rank \in AllRanks :
       \E R \in {finishHand([WithAudit(table, audit) EXCEPT !.audit.ev = "showdown"], rank)} :
         /\ table' = TableOf(R)
         /\ audit' = R.audit

SettleNext == Showdown

SpecSettle == PotInit /\ [][SettleNext]_vars

\* what player p of the table holds after the step, 0 if the seat is gone
StackAfter(p) ==
  LET js == SeatOf(table', p)
  IN IF js = {} THEN 0 ELSE table'.players[CHOOSE j \in js : TRUE].stack

\* the most a seat can win: from every seat no more than it has put in itself
WinCap(ps, i) == SumSeq(Tup([j \in DOMAIN ps |-> Min2(ps[j].committed, ps[i].committed)]))

\* C39: a showdown between two or more live seats gives no seat more than the
\* sum over all seats of min(their committed, its committed), and gives a seat
\* that is not live its refund only
C39_WinningsCapped ==
  [][Cardinality(Alive(table)) >= 2 =>
       \A i \in DOMAIN table.players :
         LET p == table.players[i]
             got == StackAfter(p) - p.stack
         IN /\ got <= WinCap(table.players, i)
            /\ ~Live(p) => got = RefundOf(audit'.sidePots, p.id)]_vars

\* three live seats at 100, 300, 300: the short seat has won the first pot of
\* 300 and no more, the second pot is split between the others
C39_Witness ==
  /\ audit.ev = "showdown"
  /\ ThreeLive_100_300_300
  /\ table.players[1].stack = STARTING_STACK - 100 + 300
  /\ table.players[2].stack = STARTING_STACK - 300 + 200
  /\ table.players[3].stack = STARTING_STACK - 300 + 200

(* ------------------- Indices after a host removal ----------------------- *)
IndicesValid(t) ==
  /\ t.currentPlayerIdx \in Idx(t.players)
  /\ t.roundFirstIdx \in Idx(t.players)
  /\ t.dealerBtn \in Idx(t.players)

\* the player an index designates, -1 if it designates none
Designated(t, idx) == IF idx \in Idx(t.players) THEN At(t.players, idx).id ELSE -1

\* the host removes, on a betting street, a seat other than the current actor
RemovesBystander ==
  /\ audit'.ev = "remove"
  /\ table.stage \in Betting
  /\ IndicesValid(table)
  /\ Designated(table, table.currentPlayerIdx) \in SeatedIds(table')

\* C40: on a betting street currentPlayerIdx, roundFirstIdx and dealerBtn are
\* indices of the player list, and the removal of a seat other than the
\* current actor leaves the current actor the same player, and leaves the
\* dealer and the first seat of the round the same players if they stay
C40_IndicesFollowPlayers ==
  [][/\ table'.stage \in Betting => IndicesValid(table')
     /\ RemovesBystander =>
          /\ Designated(table', table'.currentPlayerIdx) =
               Designated(table, table.currentPlayerIdx)
          /\ Designated(table, table.dealerBtn) \in SeatedIds(table') =>
               Designated(table', table'.dealerBtn) = Designated(table, table.dealerBtn)
          /\ Designated(table, table.roundFirstIdx) \in SeatedIds(table') =>
               Designated(table', table'.roundFirstIdx) =
                 Designated(table, table.roundFirstIdx)]_vars

====
